---- MODULE Spec2Model ----
(***************************************************************************)
(* Nano Banana AI editor: the request assembler / response interpreter of  *)
(* services/geminiService.ts (generateImage) and the App component that    *)
(* calls it (handleGenerate and the UI handlers around it), and the mask    *)
(* editor of components/ImageEditor.tsx that the App opens on its source   *)
(* image.                                                                  *)
(*                                                                         *)
(* Text is modelled as a sequence of fragments: every string literal of a  *)
(* template and every interpolated value is one fragment, and string       *)
(* concatenation is sequence concatenation.  An error message is a         *)
(* sequence of tokens, and String.includes(marker) is membership of the    *)
(* marker token.  The empty sequence is the empty string.                  *)
(***************************************************************************)
EXTENDS Integers, Sequences, FiniteSets, TLC

\* ------------------------------------------------------------------ bounds
MaxAngles == 2        \* longest cameraAngles array passed to generateImage
MaxCandidates == 2    \* most candidates in a service response
MaxRespParts == 2     \* most content parts in a candidate
MaxMsgTokens == 2     \* most tokens in a transport error message

\* ------------------------------------------------------------ value domains
NULL == "<null>"                       \* JavaScript null / undefined
None == <<>>                           \* an absent optional object
Some(x) == <<x>>                       \* a present optional object

\* JavaScript truthiness of a string | null value
Truthy(s) == s # NULL /\ s # ""

Prompts == {"", "a cat"}
SourceImages == {"S1", "S2"}
MaskImages == {"M1"}
ReferenceImages == {"R1"}

\* enum CameraAngle, TimeOfDay, Season, ArtStyle, RotationMode (a sample of each)
CameraAngle == {"Front View", "Left Side View"}
TimeOfDay == {"Dawn"}
Season == {"Winter"}
ArtStyle == {"Anime"}
RotationModeCamera == "Camera"
RotationModeObject == "Object"
RotationMode == {RotationModeCamera, RotationModeObject}

SeqsUpTo(S, n) == UNION {[1..k -> S] : k \in 0..n}

\* interface GenerationSettings (imageSize and aspectRatio go to the config
\* block only and are left out)
GenerationSettings ==
  [prompt : Prompts,
   cameraAngles : SeqsUpTo(CameraAngle, MaxAngles),
   rotationMode : RotationMode,
   timeOfDay : TimeOfDay \cup {NULL},
   season : Season \cup {NULL},
   style : ArtStyle \cup {NULL}]

\* ------------------------------------------------- generateImage: the request
imagePart(data) == [inlineData |-> [mimeType |-> "image/png", data |-> data]]
textPart(text) == [text |-> text]
IsTextPart(p) == "text" \in DOMAIN p
IsImagePart(p) == "inlineData" \in DOMAIN p

EditFirstBySecondMask ==
  "Edit the first image based on the second mask image (white pixels = area to change, black = keep). "
EditProvided == "Edit the provided image. "
UseLastAsReference == "Use the last provided image as a strict style/content reference. "
UseProvidedAsReference == "Use the provided image as a visual reference. "
DefaultPrompt == "Generate an image"
SubjectPose == ". Subject Pose: "
RotateSubjectOnly ==
  ". IMPORTANT: Rotate the subject/character only, keep the environment/background exactly the same."
CameraView == ", Camera View: "
TimeLabel == ", Time: "
SeasonLabel == ", Season: "
StyleLabel == ", Style: "

\* Array.prototype.join
RECURSIVE join(_, _)
join(arr, sep) ==
  IF Len(arr) = 0 THEN <<>>
  ELSE IF Len(arr) = 1 THEN <<arr[1]>>
  ELSE <<arr[1], sep>> \o join(Tail(arr), sep)

\* faulty variant: the mask is pushed before the source
sourceAndMaskParts_maskFirst(sourceImage, maskImage) ==
  IF Truthy(sourceImage)
  THEN (IF Truthy(maskImage) THEN <<imagePart(maskImage)>> ELSE <<>>)
       \o <<imagePart(sourceImage)>>
  ELSE <<>>

\* the image parts pushed by generateImage, in push order
sourceAndMaskParts(sourceImage, maskImage) ==
  IF Truthy(sourceImage)
  THEN <<imagePart(sourceImage)>>
       \o (IF Truthy(maskImage) THEN <<imagePart(maskImage)>> ELSE <<>>)
  ELSE <<>>

referenceParts(referenceImage) ==
  IF Truthy(referenceImage) THEN <<imagePart(referenceImage)>> ELSE <<>>

\* faulty variant: the reference block runs before the source/mask block
imageParts_referenceFirst(sourceImage, maskImage, referenceImage) ==
  referenceParts(referenceImage) \o sourceAndMaskParts(sourceImage, maskImage)

imageParts(sourceImage, maskImage, referenceImage) ==
  sourceAndMaskParts(sourceImage, maskImage) \o referenceParts(referenceImage)

\* the local variable `instructions` after both image blocks
sourceInstructions(sourceImage, maskImage) ==
  IF Truthy(sourceImage)
  THEN (IF Truthy(maskImage) THEN <<EditFirstBySecondMask>> ELSE <<EditProvided>>)
  ELSE <<>>

\* faulty variant: the reference sentence no longer looks at the source
referenceInstructions_alwaysLast(sourceImage, referenceImage) ==
  IF Truthy(referenceImage) THEN <<UseLastAsReference>> ELSE <<>>

referenceInstructions(sourceImage, referenceImage) ==
  IF Truthy(referenceImage)
  THEN (IF Truthy(sourceImage) THEN <<UseLastAsReference>> ELSE <<UseProvidedAsReference>>)
  ELSE <<>>

instructions(sourceImage, maskImage, referenceImage) ==
  sourceInstructions(sourceImage, maskImage)
    \o referenceInstructions(sourceImage, referenceImage)

\* settings.prompt || "Generate an image", then `${instructions} ${finalPrompt}`
basePrompt(settings) ==
  IF Truthy(settings.prompt) THEN settings.prompt ELSE DefaultPrompt

promptWithInstructions(settings, instr) ==
  IF instr # <<>> THEN instr \o <<" ", basePrompt(settings)>>
  ELSE <<basePrompt(settings)>>

\* faulty variant: the rotation mode is ignored and the camera phrasing always used
viewpointClause_ignoresMode(settings) ==
  IF Len(settings.cameraAngles) > 0
  THEN <<CameraView>> \o join(settings.cameraAngles, " + ")
  ELSE <<>>

viewpointClause(settings) ==
  IF Len(settings.cameraAngles) > 0
  THEN IF settings.rotationMode = RotationModeObject
       THEN <<SubjectPose>> \o join(settings.cameraAngles, " + ") \o <<RotateSubjectOnly>>
       ELSE <<CameraView>> \o join(settings.cameraAngles, " + ")
  ELSE <<>>

\* faulty variant: an unselected time of day is rendered as a placeholder
timeClause_placeholder(settings) ==
  IF Truthy(settings.timeOfDay) THEN <<TimeLabel, settings.timeOfDay>>
  ELSE <<TimeLabel, "Dawn">>

timeClause(settings) ==
  IF Truthy(settings.timeOfDay) THEN <<TimeLabel, settings.timeOfDay>> ELSE <<>>

seasonClause(settings) ==
  IF Truthy(settings.season) THEN <<SeasonLabel, settings.season>> ELSE <<>>

styleClause(settings) ==
  IF Truthy(settings.style) THEN <<StyleLabel, settings.style>> ELSE <<>>

\* faulty variant: the style clause is appended before the season clause
finalPrompt_styleBeforeSeason(settings, instr) ==
  promptWithInstructions(settings, instr)
    \o viewpointClause(settings)
    \o timeClause(settings)
    \o styleClause(settings)
    \o seasonClause(settings)

finalPrompt(settings, instr) ==
  promptWithInstructions(settings, instr)
    \o viewpointClause(settings)
    \o timeClause(settings)
    \o seasonClause(settings)
    \o styleClause(settings)

\* the `parts` array handed to ai.models.generateContent
requestParts(settings, sourceImage, maskImage, referenceImage) ==
  imageParts(sourceImage, maskImage, referenceImage)
    \o <<textPart(finalPrompt(settings,
                              instructions(sourceImage, maskImage, referenceImage)))>>

\* --------------------------------------------- generateImage: the response
\* A service response: candidates is absent (None) or a list; a candidate's
\* content is absent or an object whose parts is absent or a list; a part
\* carries text, or inlineData with a declared mimeType and the image bytes.
responseTextPart == [text |-> "some text", inlineData |-> None]
responseImagePart(mimeType, data) ==
  [text |-> NULL, inlineData |-> Some([mimeType |-> mimeType, data |-> data])]
ResponseParts ==
  {responseTextPart, responseImagePart("image/png", "B1"), responseImagePart("image/jpeg", "B2")}
ResponseContents ==
  {None, Some([parts |-> None])}
    \cup {Some([parts |-> Some(ps)]) : ps \in SeqsUpTo(ResponseParts, MaxRespParts)}
Candidates == [content : ResponseContents]
Responses ==
  {[candidates |-> None]}
    \cup {[candidates |-> Some(cs)] : cs \in SeqsUpTo(Candidates, MaxCandidates)}

\* error text of a rejected service call, as tokens ("" when it has none)
MessageTokens == {"403", "PERMISSION_DENIED", "429", "RESOURCE_EXHAUSTED", "fetch failed"}
ErrorMessages == SeqsUpTo(MessageTokens, MaxMsgTokens)

SafetyBlockedMessage ==
  <<"Generation blocked by Safety Filters. Try a different prompt or source image.">>
NoImageReturnedMessage ==
  <<"No image generated in response. The model might have returned text only.">>
PermissionDeniedMessage ==
  <<"Permission Denied (403). Your API Key may not have access to this model or is restricted.">>
QuotaExceededMessage ==
  <<"Quota Exceeded (429). You have hit the rate limit or free tier limit.">>
UnknownErrorMessage == <<"Unknown error">>

\* String.prototype.includes on a token sequence
includes(message, marker) == \E i \in 1..Len(message) : message[i] = marker

returns(value) == [kind |-> "return", value |-> value, alerts |-> <<>>]
throws(message, alerts) == [kind |-> "throw", value |-> message, alerts |-> alerts]

\* `data:image/png;base64,${part.inlineData.data}`
dataUrl(part) == <<"data:image/png;base64,", part.inlineData[1].data>>

\* for (const part of parts) if (part.inlineData) return ...
firstInlinePart(parts) ==
  LET hits == {i \in 1..Len(parts) : parts[i].inlineData # None}
  IN IF hits = {} THEN None
     ELSE Some(parts[CHOOSE i \in hits : \A j \in hits : i <= j])

\* faulty variant: the last candidate is parsed instead of the first
parsedCandidate_last(candidates) == candidates[Len(candidates)]

\* which candidate of the response is parsed
parsedCandidate(candidates) == candidates[1]

\* the try block after the await: a return value or a thrown message
parseResponse(response) ==
  IF response.candidates = None \/ Len(response.candidates[1]) = 0
  THEN throws(SafetyBlockedMessage, <<>>)
  ELSE LET c == parsedCandidate(response.candidates[1])
       IN IF c.content # None /\ c.content[1].parts # None
             /\ firstInlinePart(c.content[1].parts[1]) # None
          THEN returns(dataUrl(firstInlinePart(c.content[1].parts[1])[1]))
          ELSE throws(NoImageReturnedMessage, <<>>)

\* error.message || "Unknown error"
errorText(message) == IF message # <<>> THEN message ELSE UnknownErrorMessage

isPermissionDenied(errorMessage) ==
  includes(errorMessage, "403") \/ includes(errorMessage, "PERMISSION_DENIED")

\* faulty variant: only the numeric rate-limit marker is recognised
isQuotaExceeded_only429(errorMessage) == includes(errorMessage, "429")

isQuotaExceeded(errorMessage) ==
  includes(errorMessage, "429") \/ includes(errorMessage, "RESOURCE_EXHAUSTED")

\* the alert() texts of the catch block
permissionAlert ==
  <<"Gemini Generation Error:\n", "JSON.stringify(error)",
    "\n\nPLEASE CHECK IF YOUR API KEY HAS BILLING ENABLED OR SUPPORTS GEMINI PRO.">>
quotaAlert ==
  <<"Gemini Generation Error:\n", "JSON.stringify(error)", "\n\nTRY WAITING A MINUTE.">>
otherAlert(errorMessage) == <<"Gemini Generation Error:\n">> \o errorMessage

\* the catch block: alert, then throw new Error(errorMessage)
catchError(message) ==
  LET errorMessage == errorText(message)
  IN IF isPermissionDenied(errorMessage)
     THEN throws(PermissionDeniedMessage, <<permissionAlert>>)
     ELSE IF isQuotaExceeded(errorMessage)
     THEN throws(QuotaExceededMessage, <<quotaAlert>>)
     ELSE throws(errorMessage, <<otherAlert(errorMessage)>>)

\* how a generateImage call settles once the service has replied: the reply
\* is a response (the awaited call resolved) or an error text (it rejected);
\* an error thrown inside the try block is caught by the same catch block
ServiceReplies ==
  {[response |-> r] : r \in Responses} \cup {[error |-> m] : m \in ErrorMessages}
IsRejection(reply) == "error" \in DOMAIN reply

generateImageSettles(reply) ==
  IF IsRejection(reply) THEN catchError(reply.error)
  ELSE LET r == parseResponse(reply.response)
       IN IF r.kind = "throw" THEN catchError(r.value) ELSE r

\* the distinct ways a generateImage call can settle
generateImageResults == {generateImageSettles(reply) : reply \in ServiceReplies}

\* ------------------------------------------------------------------- state
VARIABLES
  prompt,           \* App state (useState), as named in the component
  uploadedImage,
  maskImage,
  referenceImage,
  generatedImage,   \* <<>> is null, else the data URL
  isGenerating,
  isEditorOpen,
  cameraAngles,
  rotationMode,
  timeOfDay,
  season,
  style,
  sourceReads,      \* files a FileReader of handleFileUpload is still reading
  referenceReads,   \* files a FileReader of handleReferenceUpload is still reading
  pending,          \* generateImage calls awaiting ai.models.generateContent
  sent,             \* the request handed to the service by the last step, if any
  outcome,          \* the reply and result of the call settled by the last step, if any
  alerts,           \* the alert() texts shown by the last step
  canvas,           \* ImageEditor: width and height of the <canvas> element
  surface,          \* the cells of the canvas that hold an opaque white pixel
  covered,          \* for each cell, the last operation that covered it
  path,             \* the current path of the canvas's 2D context
  isDrawing,        \* ImageEditor state (useState), as named in the component
  mode,
  imageLoads,       \* images whose img.onload of the effect has not run yet
  pointer,          \* the getCoordinates call of the last step, if it made one
  saved,            \* the buffer handleSave exported in the last step, if it ran
  openedOn          \* the imageBase64 the mounted editor was opened with, else NULL

appVars ==
  <<prompt, uploadedImage, maskImage, referenceImage, generatedImage, isGenerating,
    isEditorOpen, cameraAngles, rotationMode, timeOfDay, season, style,
    sourceReads, referenceReads>>
editorVars ==
  <<canvas, surface, covered, path, isDrawing, mode, imageLoads, pointer, saved, openedOn>>
vars == <<appVars, pending, sent, outcome, alerts, editorVars>>

\* ---------------------------------------------------------- the drawing surface
\* Lengths on the surface are counted in cells one brush wide (150 px): a
\* stroke covers the cells its path runs through.  A <canvas> element without
\* width and height attributes is 300 x 150 px, that is 2 x 1 cells.
DefaultCanvas == [width |-> 2, height |-> 1]

\* img.naturalWidth and img.naturalHeight of the source images
naturalSize(image) ==
  IF image = "S1" THEN [width |-> 1, height |-> 2] ELSE [width |-> 1, height |-> 1]

CanvasCells(cv) == (0..(cv.width - 1)) \X (0..(cv.height - 1))

\* a context that has just been created or reset has an empty path
NoPath == [last |-> None, cells |-> {}]

\* the editor's canvas and state before the editor is mounted and right after
editorIs(cv, s, cov, p, drawing, m, ptr) ==
  /\ cv = DefaultCanvas
  /\ s = {}
  /\ cov = [c \in CanvasCells(DefaultCanvas) |-> "blank"]
  /\ p = NoPath
  /\ drawing = FALSE
  /\ m = "draw"
  /\ ptr = None

\* const [...] = useState(...)
Init ==
  /\ prompt = ""
  /\ uploadedImage = NULL
  /\ maskImage = NULL
  /\ referenceImage = NULL
  /\ generatedImage = <<>>
  /\ isGenerating = FALSE
  /\ isEditorOpen = FALSE
  /\ cameraAngles = <<>>
  /\ rotationMode = RotationModeCamera
  /\ timeOfDay = NULL
  /\ season = NULL
  /\ style = NULL
  /\ sourceReads = {}
  /\ referenceReads = {}
  /\ pending = 0
  /\ sent = None
  /\ outcome = None
  /\ alerts = <<>>
  /\ editorIs(canvas, surface, covered, path, isDrawing, mode, pointer)
  /\ imageLoads = {}
  /\ saved = None
  /\ openedOn = NULL

\* the request a generateImage call builds before it awaits the service
request(settings, sourceImage, maskImage_, referenceImage_) ==
  [settings |-> settings,
   sourceImage |-> sourceImage,
   maskImage |-> maskImage_,
   referenceImage |-> referenceImage_,
   parts |-> requestParts(settings, sourceImage, maskImage_, referenceImage_)]

\* ------------------------------------- generateImage called on its own inputs
ImageArgs(S) == S \cup {NULL, ""}

\* lines 61-150: build the parts and hand them to ai.models.generateContent
generateImage(settings, sourceImage, maskImage_, referenceImage_) ==
  /\ sent' = Some(request(settings, sourceImage, maskImage_, referenceImage_))
  /\ pending' = pending + 1
  /\ alerts' = <<>>
  /\ UNCHANGED <<appVars, outcome, editorVars>>

\* one call at a time, on any settings and any images
generateImageCalled ==
  /\ pending = 0
  /\ outcome = None
  /\ \E settings \in GenerationSettings, sourceImage \in ImageArgs(SourceImages),
        maskImage_ \in ImageArgs(MaskImages), referenceImage_ \in ImageArgs(ReferenceImages) :
       generateImage(settings, sourceImage, maskImage_, referenceImage_)

\* the transport takes the request; the service replies only to a request it has
requestReceived ==
  /\ sent # None
  /\ sent' = None
  /\ UNCHANGED <<appVars, pending, outcome, alerts, editorVars>>

\* the awaited service call resolves or rejects and generateImage runs to its end
generateImageSettled ==
  /\ pending > 0
  /\ sent = None
  /\ \E reply \in ServiceReplies :
       /\ outcome' = Some([reply |-> reply, result |-> generateImageSettles(reply)])
       /\ alerts' = generateImageSettles(reply).alerts
  /\ pending' = pending - 1
  /\ UNCHANGED <<appVars, sent, editorVars>>

\* the caller takes the settled promise's value or error
resultConsumed ==
  /\ outcome # None
  /\ outcome' = None
  /\ alerts' = <<>>
  /\ UNCHANGED <<appVars, pending, sent, editorVars>>

NextService ==
  generateImageCalled \/ requestReceived \/ generateImageSettled \/ resultConsumed

SpecService == Init /\ [][NextService]_vars

\* --------------------------------------------------------- the App component
\* A UI event is handled after the task that issued a request has handed it to
\* the transport; each handler below is one such task.
uiTask ==
  /\ sent = None
  /\ alerts' = <<>>
  /\ UNCHANGED <<pending, sent, outcome>>

\* {isEditorOpen && uploadedImage && <ImageEditor .../>}
editorRendered == isEditorOpen /\ Truthy(uploadedImage)

\* What rendering the parent after a step does to the editor: it stays mounted
\* (its effect runs again when imageBase64 changed), it is mounted, or it is
\* unmounted.  `kept` is the surface the step leaves if the editor stays.
rendering(kept) ==
  IF editorRendered'
  THEN IF editorRendered
       THEN /\ surface' = kept
            /\ UNCHANGED <<canvas, covered, path, isDrawing, mode, openedOn>>
            /\ pointer' = None
            /\ imageLoads' = IF uploadedImage' = uploadedImage
                             THEN imageLoads
                             ELSE imageLoads \cup {uploadedImage'}
       ELSE /\ editorIs(canvas', surface', covered', path', isDrawing', mode', pointer')
            /\ imageLoads' = {uploadedImage'}
            /\ openedOn' = uploadedImage'
  ELSE /\ editorIs(canvas', surface', covered', path', isDrawing', mode', pointer')
       /\ imageLoads' = {}
       /\ openedOn' = NULL

\* the render that follows a handler of the App
appRenders ==
  /\ rendering(surface)
  /\ saved' = None

\* onChange of the prompt textarea
setPrompt(value) ==
  /\ uiTask
  /\ prompt' = value
  /\ UNCHANGED <<uploadedImage, maskImage, referenceImage, generatedImage, isGenerating,
                 isEditorOpen, cameraAngles, rotationMode, timeOfDay, season, style,
                 sourceReads, referenceReads>>
  /\ appRenders

\* a file is chosen in the source input (the dialog may have been opened before
\* an earlier read completed): a FileReader starts reading it
handleFileUpload(file) ==
  /\ uiTask
  /\ sourceReads' = sourceReads \cup {file}
  /\ UNCHANGED <<prompt, uploadedImage, maskImage, referenceImage, generatedImage,
                 isGenerating, isEditorOpen, cameraAngles, rotationMode, timeOfDay,
                 season, style, referenceReads>>
  /\ appRenders

\* reader.onload of handleFileUpload
sourceReaderOnload(file) ==
  /\ uiTask
  /\ file \in sourceReads
  /\ sourceReads' = sourceReads \ {file}
  /\ uploadedImage' = file
  /\ maskImage' = NULL
  /\ UNCHANGED <<prompt, referenceImage, generatedImage, isGenerating, isEditorOpen,
                 cameraAngles, rotationMode, timeOfDay, season, style, referenceReads>>
  /\ appRenders

handleReferenceUpload(file) ==
  /\ uiTask
  /\ referenceReads' = referenceReads \cup {file}
  /\ UNCHANGED <<prompt, uploadedImage, maskImage, referenceImage, generatedImage,
                 isGenerating, isEditorOpen, cameraAngles, rotationMode, timeOfDay,
                 season, style, sourceReads>>
  /\ appRenders

\* reader.onload of handleReferenceUpload
referenceReaderOnload(file) ==
  /\ uiTask
  /\ file \in referenceReads
  /\ referenceReads' = referenceReads \ {file}
  /\ referenceImage' = file
  /\ UNCHANGED <<prompt, uploadedImage, maskImage, generatedImage, isGenerating,
                 isEditorOpen, cameraAngles, rotationMode, timeOfDay, season, style,
                 sourceReads>>
  /\ appRenders

\* the Remove button of the source image (rendered while there is one)
removeSource ==
  /\ uiTask
  /\ Truthy(uploadedImage)
  /\ uploadedImage' = NULL
  /\ maskImage' = NULL
  /\ UNCHANGED <<prompt, referenceImage, generatedImage, isGenerating, isEditorOpen,
                 cameraAngles, rotationMode, timeOfDay, season, style, sourceReads,
                 referenceReads>>
  /\ appRenders

\* the Remove Reference button
removeReference ==
  /\ uiTask
  /\ Truthy(referenceImage)
  /\ referenceImage' = NULL
  /\ UNCHANGED <<prompt, uploadedImage, maskImage, generatedImage, isGenerating,
                 isEditorOpen, cameraAngles, rotationMode, timeOfDay, season, style,
                 sourceReads, referenceReads>>
  /\ appRenders

\* the Edit / Mask button (rendered while there is a source image)
openEditor ==
  /\ uiTask
  /\ Truthy(uploadedImage)
  /\ isEditorOpen' = TRUE
  /\ UNCHANGED <<prompt, uploadedImage, maskImage, referenceImage, generatedImage,
                 isGenerating, cameraAngles, rotationMode, timeOfDay, season, style,
                 sourceReads, referenceReads>>
  /\ appRenders

\* the onSave prop of ImageEditor
editorOnSave(mask) ==
  /\ uiTask
  /\ editorRendered
  /\ maskImage' = mask
  /\ isEditorOpen' = FALSE
  /\ UNCHANGED <<prompt, uploadedImage, referenceImage, generatedImage, isGenerating,
                 cameraAngles, rotationMode, timeOfDay, season, style, sourceReads,
                 referenceReads>>

\* an editor that calls onSave with some mask
editorDelivers(mask) ==
  /\ editorOnSave(mask)
  /\ appRenders

\* faulty variant: closing the editor also drops the stored mask
editorOnClose_dropsMask ==
  /\ uiTask
  /\ editorRendered
  /\ isEditorOpen' = FALSE
  /\ maskImage' = NULL
  /\ UNCHANGED <<prompt, uploadedImage, referenceImage, generatedImage,
                 isGenerating, cameraAngles, rotationMode, timeOfDay, season, style,
                 sourceReads, referenceReads>>
  /\ appRenders

\* the onClose prop of ImageEditor
editorOnClose ==
  /\ uiTask
  /\ editorRendered
  /\ isEditorOpen' = FALSE
  /\ UNCHANGED <<prompt, uploadedImage, maskImage, referenceImage, generatedImage,
                 isGenerating, cameraAngles, rotationMode, timeOfDay, season, style,
                 sourceReads, referenceReads>>
  /\ appRenders

\* faulty variant: a newly selected viewpoint is put in front of the others
toggled_prepends(prev, angle) ==
  LET isOther(a) == a # angle
  IN IF \E i \in 1..Len(prev) : prev[i] = angle
     THEN SelectSeq(prev, isOther)
     ELSE <<angle>> \o prev

\* prev.includes(angle) ? prev.filter(a => a !== angle) : [...prev, angle]
toggled(prev, angle) ==
  LET isOther(a) == a # angle
  IN IF \E i \in 1..Len(prev) : prev[i] = angle
     THEN SelectSeq(prev, isOther)
     ELSE Append(prev, angle)

handleAngleToggle(angle) ==
  /\ uiTask
  /\ cameraAngles' = toggled(cameraAngles, angle)
  /\ UNCHANGED <<prompt, uploadedImage, maskImage, referenceImage, generatedImage,
                 isGenerating, isEditorOpen, rotationMode, timeOfDay, season, style,
                 sourceReads, referenceReads>>
  /\ appRenders

setRotationMode(value) ==
  /\ uiTask
  /\ rotationMode' = value
  /\ UNCHANGED <<prompt, uploadedImage, maskImage, referenceImage, generatedImage,
                 isGenerating, isEditorOpen, cameraAngles, timeOfDay, season, style,
                 sourceReads, referenceReads>>
  /\ appRenders

\* the Time and Season selects ("" selects null) and the style pills
setTimeOfDay(value) ==
  /\ uiTask
  /\ timeOfDay' = value
  /\ UNCHANGED <<prompt, uploadedImage, maskImage, referenceImage, generatedImage,
                 isGenerating, isEditorOpen, cameraAngles, rotationMode, season, style,
                 sourceReads, referenceReads>>
  /\ appRenders

setSeason(value) ==
  /\ uiTask
  /\ season' = value
  /\ UNCHANGED <<prompt, uploadedImage, maskImage, referenceImage, generatedImage,
                 isGenerating, isEditorOpen, cameraAngles, rotationMode, timeOfDay, style,
                 sourceReads, referenceReads>>
  /\ appRenders

setStyle(s) ==
  /\ uiTask
  /\ style' = (IF style = s THEN NULL ELSE s)
  /\ UNCHANGED <<prompt, uploadedImage, maskImage, referenceImage, generatedImage,
                 isGenerating, isEditorOpen, cameraAngles, rotationMode, timeOfDay, season,
                 sourceReads, referenceReads>>
  /\ appRenders

nothingToGenerate == ~Truthy(prompt) /\ ~Truthy(uploadedImage) /\ ~Truthy(referenceImage)

\* faulty variant: the Generate button stays enabled while a call is in flight
generateButtonDisabled_ignoresInFlight == nothingToGenerate

\* disabled={isGenerating || (!prompt && !uploadedImage && !referenceImage)}
generateButtonDisabled == isGenerating \/ nothingToGenerate

\* onClick of the Generate button: handleGenerate up to its await
handleGenerate ==
  /\ sent = None
  /\ ~generateButtonDisabled
  /\ ~nothingToGenerate
  /\ isGenerating' = TRUE
  /\ generatedImage' = <<>>
  /\ sent' = Some(request([prompt |-> prompt, cameraAngles |-> cameraAngles,
                           rotationMode |-> rotationMode, timeOfDay |-> timeOfDay,
                           season |-> season, style |-> style],
                          uploadedImage, maskImage, referenceImage))
  /\ pending' = pending + 1
  /\ alerts' = <<>>
  /\ UNCHANGED <<prompt, uploadedImage, maskImage, referenceImage, isEditorOpen,
                 cameraAngles, rotationMode, timeOfDay, season, style, sourceReads,
                 referenceReads, outcome>>
  /\ appRenders

\* alert(`Generation failed: ${error}`)
generationFailedAlert(message) == <<"Generation failed: ", "Error: ">> \o message

\* faulty variant: isGenerating is cleared on the success path only
isGeneratingAfter_onSuccessOnly(result) == result.kind # "return"

\* finally { setIsGenerating(false) }
isGeneratingAfter(result) == FALSE

\* handleGenerate after its await: the call settled with `result`
handleGenerateResumes(result) ==
  /\ sent = None
  /\ pending > 0
  /\ pending' = pending - 1
  /\ IF result.kind = "return"
     THEN generatedImage' = result.value /\ alerts' = <<>>
     ELSE /\ generatedImage' = generatedImage
          /\ alerts' = result.alerts \o <<generationFailedAlert(result.value)>>
  /\ isGenerating' = isGeneratingAfter(result)
  /\ UNCHANGED <<prompt, uploadedImage, maskImage, referenceImage, isEditorOpen,
                 cameraAngles, rotationMode, timeOfDay, season, style, sourceReads,
                 referenceReads, sent, outcome>>
  /\ appRenders

\* the App with its editor taken as a component that may deliver any mask
Next ==
  \/ \E value \in Prompts : setPrompt(value)
  \/ \E file \in SourceImages : handleFileUpload(file)
  \/ \E file \in SourceImages : sourceReaderOnload(file)
  \/ \E file \in ReferenceImages : handleReferenceUpload(file)
  \/ \E file \in ReferenceImages : referenceReaderOnload(file)
  \/ removeSource
  \/ removeReference
  \/ openEditor
  \/ \E mask \in MaskImages : editorDelivers(mask)
  \/ editorOnClose
  \/ \E angle \in CameraAngle : handleAngleToggle(angle)
  \/ \E value \in RotationMode : setRotationMode(value)
  \/ \E value \in TimeOfDay \cup {NULL} : setTimeOfDay(value)
  \/ \E value \in Season \cup {NULL} : setSeason(value)
  \/ \E s \in ArtStyle : setStyle(s)
  \/ handleGenerate
  \/ requestReceived
  \/ \E result \in generateImageResults : handleGenerateResumes(result)

Spec == Init /\ [][Next]_vars

\* ------------------------------------------------- shared by the claims below
HasRequest == sent # None
Req == sent[1]
ReqText == Req.parts[Len(Req.parts)].text
Contains(text, fragment) == \E i \in 1..Len(text) : text[i] = fragment
GivenImages(r) == SelectSeq(<<r.sourceImage, r.maskImage, r.referenceImage>>, Truthy)
MaskOnlyWithSource(r) == Truthy(r.maskImage) => Truthy(r.sourceImage)

InstructionSentences ==
  {EditFirstBySecondMask, EditProvided, UseLastAsReference, UseProvidedAsReference}
IsInstructionSentence(f) == f \in InstructionSentences

\* which clause of the text part a fragment belongs to
IsContextFragment(f) == f \in InstructionSentences \cup {" "}
IsPromptFragment(f) == f \in (Prompts \ {""}) \cup {DefaultPrompt}
IsViewpointFragment(f) ==
  f \in {SubjectPose, RotateSubjectOnly, CameraView, " + "} \cup CameraAngle
IsTimeFragment(f) == f = TimeLabel \/ f \in TimeOfDay
IsSeasonFragment(f) == f = SeasonLabel \/ f \in Season
IsStyleFragment(f) == f = StyleLabel \/ f \in ArtStyle
ClauseRank(f) ==
  IF IsContextFragment(f) THEN 1
  ELSE IF IsPromptFragment(f) THEN 2
  ELSE IF IsViewpointFragment(f) THEN 3
  ELSE IF IsTimeFragment(f) THEN 4
  ELSE IF IsSeasonFragment(f) THEN 5
  ELSE IF IsStyleFragment(f) THEN 6
  ELSE 0

\* C1: whenever a mask is given only together with a source, the parts sent are
\* exactly the given images in the order source, mask, reference, followed by
\* one text part, and nothing else.
C1_PartOrder ==
  HasRequest /\ MaskOnlyWithSource(Req) =>
    LET imgs == GivenImages(Req)
    IN /\ Len(Req.parts) = Len(imgs) + 1
       /\ \A i \in 1..Len(imgs) :
            IsImagePart(Req.parts[i]) /\ Req.parts[i].inlineData.data = imgs[i]
       /\ IsTextPart(Req.parts[Len(Req.parts)])

\* a request with source, mask and reference all given: [S, M, R, text]
C1_Witness ==
  /\ HasRequest
  /\ Truthy(Req.sourceImage) /\ Truthy(Req.maskImage) /\ Truthy(Req.referenceImage)
  /\ Len(Req.parts) = 4

\* C2: the editing-context sentences of the text part depend only on which
\* images are present: source+mask, source alone, reference with a source,
\* reference without a source, and no image at all (then no context text).
C2_EditingContext ==
  HasRequest =>
    LET src == Truthy(Req.sourceImage)
        msk == Truthy(Req.maskImage)
        ref == Truthy(Req.referenceImage)
        ctx == SelectSeq(ReqText, IsInstructionSentence)
    IN /\ (src /\ msk /\ ~ref) => ctx = <<EditFirstBySecondMask>>
       /\ (src /\ ~msk /\ ~ref) => ctx = <<EditProvided>>
       /\ (src /\ msk /\ ref) => ctx = <<EditFirstBySecondMask, UseLastAsReference>>
       /\ (src /\ ~msk /\ ref) => ctx = <<EditProvided, UseLastAsReference>>
       /\ (~src /\ ref) => ctx = <<UseProvidedAsReference>>
       /\ (~src /\ ~msk /\ ~ref) =>
            ctx = <<>> /\ ~IsContextFragment(ReqText[1])

\* a request with a reference and no source, whose settings are not the default
C2_Witness ==
  /\ HasRequest
  /\ ~Truthy(Req.sourceImage) /\ Truthy(Req.referenceImage)
  /\ Truthy(Req.settings.prompt) /\ Truthy(Req.settings.style)
  /\ ReqText[1] = UseProvidedAsReference

\* C3: when the text says to use the last provided image as the reference, the
\* last image part is the reference image; when it says to edit the first
\* image based on the second mask image, part 1 is the source and part 2 the mask.
C3_PositionalCoupling ==
  HasRequest =>
    LET n == Len(Req.parts) - 1
    IN /\ Contains(ReqText, UseLastAsReference) =>
            /\ n >= 1 /\ IsImagePart(Req.parts[n])
            /\ Truthy(Req.referenceImage)
            /\ Req.parts[n].inlineData.data = Req.referenceImage
       /\ Contains(ReqText, EditFirstBySecondMask) =>
            /\ n >= 2 /\ IsImagePart(Req.parts[1]) /\ IsImagePart(Req.parts[2])
            /\ Req.parts[1].inlineData.data = Req.sourceImage
            /\ Req.parts[2].inlineData.data = Req.maskImage

\* a request whose text carries both positional sentences
C3_Witness ==
  /\ HasRequest
  /\ Contains(ReqText, UseLastAsReference)
  /\ Contains(ReqText, EditFirstBySecondMask)

\* C4: the text part is editing context, base prompt, viewpoint clause, time
\* clause, season clause, style clause, in that order: the clause ranks of its
\* fragments never decrease, every fragment belongs to one of the clauses, and
\* there is exactly one base prompt.
C4_ClauseOrder ==
  HasRequest =>
    /\ \A i \in 1..Len(ReqText) : ClauseRank(ReqText[i]) >= 1
    /\ \A i, j \in 1..Len(ReqText) :
         i < j => ClauseRank(ReqText[i]) <= ClauseRank(ReqText[j])
    /\ Cardinality({i \in 1..Len(ReqText) : ClauseRank(ReqText[i]) = 2}) = 1

\* a request whose text has all six clauses
C4_Witness ==
  /\ HasRequest
  /\ \A k \in 1..6 : \E i \in 1..Len(ReqText) : ClauseRank(ReqText[i]) = k

FragmentsOfRank(text, k) == {text[i] : i \in {j \in 1..Len(text) : ClauseRank(text[j]) = k}}

\* C5 as stated: an empty or unselected field (prompt, viewpoints, time, season,
\* style) adds nothing to the text part and no placeholder stands in for it.
C5_Original_OmittedAddNothing ==
  HasRequest =>
    /\ ~Truthy(Req.settings.prompt) => FragmentsOfRank(ReqText, 2) = {}
    /\ Len(Req.settings.cameraAngles) = 0 => FragmentsOfRank(ReqText, 3) = {}
    /\ ~Truthy(Req.settings.timeOfDay) => FragmentsOfRank(ReqText, 4) = {}
    /\ ~Truthy(Req.settings.season) => FragmentsOfRank(ReqText, 5) = {}
    /\ ~Truthy(Req.settings.style) => FragmentsOfRank(ReqText, 6) = {}

\* C5 amended: an unselected viewpoint list, time, season or style adds nothing
\* and a selected one adds its clause; an empty prompt is replaced by the
\* default prompt "Generate an image", a non-empty prompt is used as it is.
C5_OmittedFields ==
  HasRequest =>
    /\ FragmentsOfRank(ReqText, 2) =
         (IF Truthy(Req.settings.prompt) THEN {Req.settings.prompt} ELSE {DefaultPrompt})
    /\ (Len(Req.settings.cameraAngles) = 0) <=> (FragmentsOfRank(ReqText, 3) = {})
    /\ FragmentsOfRank(ReqText, 4) =
         (IF Truthy(Req.settings.timeOfDay) THEN {TimeLabel, Req.settings.timeOfDay} ELSE {})
    /\ FragmentsOfRank(ReqText, 5) =
         (IF Truthy(Req.settings.season) THEN {SeasonLabel, Req.settings.season} ELSE {})
    /\ FragmentsOfRank(ReqText, 6) =
         (IF Truthy(Req.settings.style) THEN {StyleLabel, Req.settings.style} ELSE {})

\* a request with a source image and every settings field empty or unselected:
\* the text is the editing context and the default prompt only
C5_Witness ==
  /\ HasRequest
  /\ ~Truthy(Req.settings.prompt) /\ Len(Req.settings.cameraAngles) = 0
  /\ ~Truthy(Req.settings.timeOfDay) /\ ~Truthy(Req.settings.season)
  /\ ~Truthy(Req.settings.style)
  /\ Truthy(Req.sourceImage)
  /\ ReqText = <<EditProvided, " ", DefaultPrompt>>

\* the selected viewpoints joined with " + " stand in the text from position k
ListedFrom(text, angles, k) ==
  /\ k + 2 * Len(angles) - 2 <= Len(text)
  /\ \A i \in 1..Len(angles) :
       /\ text[k + 2 * i - 2] = angles[i]
       /\ i < Len(angles) => text[k + 2 * i - 1] = " + "

\* C6: with at least one viewpoint selected the clause lists them joined with
\* " + "; in object mode it also says to rotate only the subject and keep the
\* environment, in camera mode it is a camera view with no such instruction.
C6_ViewpointClause ==
  HasRequest /\ Len(Req.settings.cameraAngles) > 0 =>
    LET angles == Req.settings.cameraAngles
    IN IF Req.settings.rotationMode = RotationModeObject
       THEN /\ \E k \in 2..Len(ReqText) :
                 ReqText[k - 1] = SubjectPose /\ ListedFrom(ReqText, angles, k)
                 /\ ReqText[k + 2 * Len(angles) - 1] = RotateSubjectOnly
            /\ ~Contains(ReqText, CameraView)
       ELSE /\ \E k \in 2..Len(ReqText) :
                 ReqText[k - 1] = CameraView /\ ListedFrom(ReqText, angles, k)
            /\ ~Contains(ReqText, RotateSubjectOnly)
            /\ ~Contains(ReqText, SubjectPose)

\* object mode with viewpoints [Front View, Left Side View]
C6_Witness ==
  /\ HasRequest
  /\ Req.settings.cameraAngles = <<"Front View", "Left Side View">>
  /\ Req.settings.rotationMode = RotationModeObject
  /\ Contains(ReqText, RotateSubjectOnly)

HasOutcome == outcome # None
Reply == outcome[1].reply
Result == outcome[1].result
\* the content parts of a candidate ([] when it has no content or no parts)
PartsOf(candidate) ==
  IF candidate.content = None \/ candidate.content[1].parts = None THEN <<>>
  ELSE candidate.content[1].parts[1]
ImageIndexes(parts) == {i \in 1..Len(parts) : parts[i].inlineData # None}
FirstImage(parts) ==
  parts[CHOOSE i \in ImageIndexes(parts) : \A j \in ImageIndexes(parts) : i <= j]

\* C7: no candidates (absent or empty) gives SafetyBlocked; otherwise the first
\* part of the first candidate that carries image bytes is the result, with
\* exactly its bytes; a first candidate without image bytes gives
\* NoImageReturned, whatever later candidates hold.
C7_ResponseInterpretation ==
  HasOutcome /\ ~IsRejection(Reply) =>
    LET cands == Reply.response.candidates
    IN IF cands = None \/ Len(cands[1]) = 0
       THEN Result.kind = "throw" /\ Result.value = SafetyBlockedMessage
       ELSE LET parts == PartsOf(cands[1][1])
            IN IF ImageIndexes(parts) # {}
               THEN /\ Result.kind = "return"
                    /\ Result.value[Len(Result.value)] = FirstImage(parts).inlineData[1].data
               ELSE Result.kind = "throw" /\ Result.value = NoImageReturnedMessage

\* the first candidate is text only and a later candidate carries an image
C7_Witness ==
  /\ HasOutcome /\ ~IsRejection(Reply)
  /\ Reply.response.candidates # None
  /\ Len(Reply.response.candidates[1]) = 2
  /\ PartsOf(Reply.response.candidates[1][1]) = <<responseTextPart>>
  /\ ImageIndexes(PartsOf(Reply.response.candidates[1][2])) # {}
  /\ Result.value = NoImageReturnedMessage

\* C8: the returned data: URI names the media type declared on the inline part
\* that was selected from the response.
C8_DataUriMediaType ==
  HasOutcome /\ ~IsRejection(Reply) /\ Result.kind = "return" =>
    LET part == FirstImage(PartsOf(Reply.response.candidates[1][1]))
    IN Result.value[1] = "data:" \o part.inlineData[1].mimeType \o ";base64,"

\* the text the classifier sees: the error's message, or the fallback for none
C9_Classified(message) ==
  IF includes(message, "403") \/ includes(message, "PERMISSION_DENIED")
  THEN PermissionDeniedMessage
  ELSE IF includes(message, "429") \/ includes(message, "RESOURCE_EXHAUSTED")
  THEN QuotaExceededMessage
  ELSE message

\* C9 as stated: a rejected call is classified by its error text, forbidden
\* markers first, then rate-limit markers, and any other message is passed
\* through verbatim as the thrown error's message.
C9_Original_Classification ==
  HasOutcome /\ IsRejection(Reply) =>
    Result.kind = "throw" /\ Result.value = C9_Classified(Reply.error)

\* C9 amended: as stated, except that an error with no (empty) message is
\* thrown on as "Unknown error" instead of verbatim.
C9_Classification ==
  HasOutcome /\ IsRejection(Reply) =>
    /\ Result.kind = "throw"
    /\ Result.value =
         (IF Reply.error = <<>> THEN UnknownErrorMessage ELSE C9_Classified(Reply.error))

\* an error text whose only marker is the spelled-out rate-limit marker
C9_Witness ==
  /\ HasOutcome /\ IsRejection(Reply)
  /\ Reply.error = <<"fetch failed", "RESOURCE_EXHAUSTED">>
  /\ Result.value = QuotaExceededMessage

\* C10: at most one generation request is in flight: while a generateImage call
\* started by handleGenerate is pending the in-flight flag is set and no
\* second call is pending beside it.
C10_SingleFlight ==
  /\ pending <= 1
  /\ pending > 0 => isGenerating

\* a call is in flight while the inputs would otherwise allow a generation
C10_Witness ==
  pending = 1 /\ sent = None /\ ~nothingToGenerate /\ Truthy(uploadedImage)

\* ------------------------------------------------------------------- C11
\* The awaited call always settles: the transport takes a request that was
\* handed to it, and a call that is awaited resolves or rejects.
\* one reply of each kind generateImage tells apart: an image, a response
\* without candidates, and rejections of each class
SettlingReplies ==
  {[response |-> [candidates |->
      Some(<<[content |-> Some([parts |-> Some(<<responseImagePart("image/png", "B1")>>)])]>>)]],
   [response |-> [candidates |-> None]],
   [error |-> <<"403">>],
   [error |-> <<"429">>],
   [error |-> <<"fetch failed">>],
   [error |-> <<>>]}

callSettles ==
  /\ pending > 0
  /\ sent = None
  /\ \E reply \in SettlingReplies : handleGenerateResumes(generateImageSettles(reply))

\* the handlers that decide whether a generation action can start, and the
\* generation action itself
NextGenerate ==
  \/ \E value \in Prompts : setPrompt(value)
  \/ \E file \in SourceImages : handleFileUpload(file)
  \/ \E file \in SourceImages : sourceReaderOnload(file)
  \/ \E file \in ReferenceImages : handleReferenceUpload(file)
  \/ \E file \in ReferenceImages : referenceReaderOnload(file)
  \/ removeSource
  \/ removeReference
  \/ handleGenerate
  \/ requestReceived
  \/ callSettles

SpecLive ==
  Init /\ [][NextGenerate]_vars /\ WF_vars(requestReceived) /\ WF_vars(callSettles)

Ratio(n, d) == [n |-> n, d |-> d]
IsFiniteNumber(r) == r.d # 0
IsFinitePoint(c) == IsFiniteNumber(c.x) /\ IsFiniteNumber(c.y)
cellOf(c) == <<c.x.n \div c.x.d, c.y.n \div c.y.d>>

\* canvas.getBoundingClientRect() at the time of an event
Rect(w, h) == [left |-> 1, top |-> 1, width |-> w, height |-> h]
eventAt(r, dx, dy) == [clientX |-> r.left + dx, clientY |-> r.top + dy, rect |-> r]

\* The mouse and touch events: every position of a 2 x 2 rectangle, the left
\* end, middle and right end of the top edge of a 4 x 2 rectangle, and the
\* corner of a rectangle without width or without height.
PointerEvents ==
  {eventAt(Rect(2, 2), dx, dy) : dx \in 0..2, dy \in 0..2}
    \cup {eventAt(Rect(4, 2), dx, 0) : dx \in {0, 2, 4}}
    \cup {eventAt(Rect(0, 2), 0, 0), eventAt(Rect(2, 0), 0, 0)}

\* faulty variant: the scale cached in scaleRef ({x: 1, y: 1}) is used
getCoordinates_cachedScale(e) ==
  [x |-> Ratio(e.clientX - e.rect.left, 1), y |-> Ratio(e.clientY - e.rect.top, 1)]

\* getCoordinates: the position in the displayed element times canvas size
\* over displayed size
getCoordinates(e) ==
  LET xRelative == e.clientX - e.rect.left
      yRelative == e.clientY - e.rect.top
      scaleX == Ratio(canvas.width, e.rect.width)
      scaleY == Ratio(canvas.height, e.rect.height)
  IN [x |-> Ratio(xRelative * scaleX.n, scaleX.d),
      y |-> Ratio(yRelative * scaleY.n, scaleY.d)]

Min(a, b) == IF a < b THEN a ELSE b
Max(a, b) == IF a < b THEN b ELSE a

\* the cells a round brush covers when it runs straight from cell a to cell b
segment(a, b) ==
  {c \in (Min(a[1], b[1])..Max(a[1], b[1])) \X (Min(a[2], b[2])..Max(a[2], b[2])) :
     (c[1] - a[1]) * (b[2] - a[2]) = (c[2] - a[2]) * (b[1] - a[1])}

\* ctx.moveTo(x, y) and ctx.lineTo(x, y): a call with a non-finite argument is
\* ignored, and lineTo on an empty path only sets its first point.  The cells
\* kept are those on the canvas: resizing the canvas empties the path.
moveTo(p, c) ==
  IF IsFinitePoint(c) THEN [last |-> Some(cellOf(c)), cells |-> p.cells] ELSE p
lineTo(p, c) ==
  IF ~IsFinitePoint(c) THEN p
  ELSE IF p.last = None THEN [last |-> Some(cellOf(c)), cells |-> p.cells]
  ELSE [last |-> Some(cellOf(c)),
        cells |-> p.cells \cup (segment(p.last[1], cellOf(c)) \cap CanvasCells(canvas))]

\* faulty variant: the eraser composites like the brush
stroke_ignoresMode(s, p, m) == s \cup p.cells

\* ctx.stroke() of the whole current path: opaque white composited source-over
\* in draw mode, destination-out in erase mode
stroke(s, p, m) == IF m = "draw" THEN s \cup p.cells ELSE s \ p.cells

\* the record of a stroke in `covered`
strokeCovers(cov, p, m) ==
  [c \in DOMAIN cov |->
     IF c \in p.cells THEN (IF m = "draw" THEN "painted" ELSE "erased") ELSE cov[c]]

\* the export canvas of handleSave: filled black, the surface drawn over it
exported(cv, s) ==
  [width |-> cv.width, height |-> cv.height,
   pixels |-> [c \in CanvasCells(cv) |-> IF c \in s THEN "white" ELSE "black"]]

\* exportCanvas.toDataURL('image/png').split(',')[1]
base64Of(buffer) == ToString(buffer)

\* faulty variant: the export is composited on the drawing surface itself
surfaceAfterSave_flattened(s) == {}

\* handleSave only reads the canvas (ctx.drawImage(canvas, 0, 0))
surfaceAfterSave(s) == s

\* a handler of the mounted editor that calls neither onSave nor onClose
editorTask ==
  /\ uiTask
  /\ editorRendered
  /\ saved' = None
  /\ UNCHANGED <<appVars, openedOn>>

\* img.onload of the effect: sizing the canvas resets it
imageOnload(image) ==
  /\ editorTask
  /\ image \in imageLoads
  /\ imageLoads' = imageLoads \ {image}
  /\ canvas' = naturalSize(image)
  /\ surface' = {}
  /\ covered' = [c \in CanvasCells(naturalSize(image)) |-> "blank"]
  /\ path' = NoPath
  /\ pointer' = None
  /\ UNCHANGED <<isDrawing, mode>>

\* onMouseDown / onTouchStart.  The draw(e) it calls is the draw of the render
\* the handler belongs to, which sees the isDrawing of that render.
startDrawing(e) ==
  /\ editorTask
  /\ LET c == getCoordinates(e)
         begun == moveTo(NoPath, c)
         drawn == lineTo(begun, c)
     IN /\ isDrawing' = TRUE
        /\ pointer' = Some([event |-> e, coords |-> Some(c)])
        /\ IF isDrawing
           THEN /\ path' = drawn
                /\ surface' = stroke(surface, drawn, mode)
                /\ covered' = strokeCovers(covered, drawn, mode)
           ELSE /\ path' = begun
                /\ UNCHANGED <<surface, covered>>
  /\ UNCHANGED <<canvas, mode, imageLoads>>

\* onMouseMove / onTouchMove
draw(e) ==
  /\ editorTask
  /\ IF isDrawing
     THEN LET c == getCoordinates(e)
              drawn == lineTo(path, c)
          IN /\ path' = drawn
             /\ surface' = stroke(surface, drawn, mode)
             /\ covered' = strokeCovers(covered, drawn, mode)
             /\ pointer' = Some([event |-> e, coords |-> Some(c)])
     ELSE /\ pointer' = None
          /\ UNCHANGED <<path, surface, covered>>
  /\ UNCHANGED <<canvas, isDrawing, mode, imageLoads>>

\* onMouseUp / onMouseLeave / onTouchEnd.  ctx.closePath() closes a path that
\* is never stroked again: every stroke follows the beginPath of startDrawing.
stopDrawing ==
  /\ editorTask
  /\ isDrawing' = FALSE
  /\ pointer' = None
  /\ UNCHANGED <<canvas, surface, covered, path, mode, imageLoads>>

\* the Brush and Eraser buttons
setMode(m) ==
  /\ editorTask
  /\ mode' = m
  /\ pointer' = None
  /\ UNCHANGED <<canvas, surface, covered, path, isDrawing, imageLoads>>

\* the Clear Mask button: ctx.clearRect(0, 0, canvas.width, canvas.height)
clearCanvas ==
  /\ editorTask
  /\ surface' = {}
  /\ covered' = [c \in DOMAIN covered |-> "cleared"]
  /\ pointer' = None
  /\ UNCHANGED <<canvas, path, isDrawing, mode, imageLoads>>

\* handleSave, around its call onSave(base64): the export, and the render that
\* follows what the parent's onSave did
handleSave ==
  /\ editorRendered
  /\ saved' = Some([buffer |-> exported(canvas, surface),
                    previous |-> IF saved = None THEN None ELSE Some(saved[1].buffer)])
  /\ rendering(surfaceAfterSave(surface))

\* ------------------------------------ the editor under a parent of its own
\* A parent renders <ImageEditor imageBase64={image} .../>, takes the mask its
\* onSave is given and leaves the editor open, and closes it on onClose as the
\* App does.
parentRenders(image) ==
  /\ uiTask
  /\ uploadedImage' = image
  /\ isEditorOpen' = TRUE
  /\ UNCHANGED <<prompt, maskImage, referenceImage, generatedImage, isGenerating,
                 cameraAngles, rotationMode, timeOfDay, season, style, sourceReads,
                 referenceReads>>
  /\ appRenders

parentOnSave(mask) ==
  /\ uiTask
  /\ UNCHANGED appVars

\* the Apply Mask button of an editor under this parent
parentAppliesMask ==
  /\ parentOnSave(base64Of(exported(canvas, surface)))
  /\ handleSave

BrushModes == {"draw", "erase"}

NextEditor ==
  \/ \E image \in SourceImages : parentRenders(image)
  \/ \E image \in SourceImages : imageOnload(image)
  \/ \E e \in PointerEvents : startDrawing(e)
  \/ \E e \in PointerEvents : draw(e)
  \/ stopDrawing
  \/ \E m \in BrushModes : setMode(m)
  \/ clearCanvas
  \/ parentAppliesMask
  \/ editorOnClose

SpecEditor == Init /\ [][NextEditor]_vars

\* --------------------------------------------- the App with its mask editor
\* The handlers of the App that touch the source image, the editor and the
\* generation, with the editor they render.
StudioImages == SourceImages
StudioPointerEvents ==
  {e \in PointerEvents : e.rect.width = 2 /\ e.rect.height = 2 /\ e.clientX = e.rect.left}

\* the Apply Mask button of the editor the App renders
applyMask ==
  /\ editorOnSave(base64Of(exported(canvas, surface)))
  /\ handleSave

NextStudio ==
  \/ \E file \in StudioImages : handleFileUpload(file)
  \/ \E file \in StudioImages : sourceReaderOnload(file)
  \/ removeSource
  \/ openEditor
  \/ editorOnClose
  \/ handleGenerate
  \/ requestReceived
  \/ callSettles
  \/ \E image \in StudioImages : imageOnload(image)
  \/ \E e \in StudioPointerEvents : startDrawing(e)
  \/ \E e \in StudioPointerEvents : draw(e)
  \/ stopDrawing
  \/ \E m \in BrushModes : setMode(m)
  \/ clearCanvas
  \/ applyMask

SpecStudio == Init /\ [][NextStudio]_vars

\* ------------------------------------------------------------------- C12
\* C12: while a generation call is pending (isGenerating), no pointer event
\* is handled by the editor and no mask is exported.
C12_SurfaceIdleWhileGenerating == isGenerating => (pointer = None /\ saved = None)

\* ------------------------------------------------------------------- C13
Saved == saved[1]
AllCleared == \A c \in DOMAIN covered : covered[c] = "cleared"

\* C13: when the last operation on every cell of the surface is a clear-all,
\* the exported mask is the all-black image of the source image's native size.
C13_ClearedExportsBlack ==
  saved # None /\ AllCleared => Saved.buffer = exported(naturalSize(uploadedImage), {})

\* ------------------------------------------------------------------- C14
\* C14: a mask handed to onSave has the native width and height of the source
\* image the editor shows.
C14_NativeMaskSize ==
  saved # None =>
    /\ Saved.buffer.width = naturalSize(uploadedImage).width
    /\ Saved.buffer.height = naturalSize(uploadedImage).height

\* ------------------------------------------------------------------- C15
imageLoading == editorRendered /\ uploadedImage \in imageLoads

\* C15: while the onload of the shown image has not run, no step renders a
\* stroke on the surface and no step hands a mask to onSave.
C15_DeferredUntilLoaded ==
  [][imageLoading /\ imageLoading' /\ imageLoads' = imageLoads
       => /\ saved' = None
          /\ \A c \in DOMAIN covered' :
               covered'[c] \in {"painted", "erased"} => covered'[c] = covered[c]]_vars

\* ------------------------------------------------------------------- C16
Pointer == pointer[1]
IsDegenerate(r) == r.width = 0 \/ r.height = 0

\* C16: for an event on a rectangle without width or height, getCoordinates
\* produces no coordinate.
C16_DeclinesOnDegenerateRect ==
  pointer # None /\ IsDegenerate(Pointer.event.rect) => Pointer.coords = None

\* ------------------------------------------------------------------- C17
\* C17: on a rectangle with width and height, the coordinate of an event is
\* (clientX - rect.left) * canvas.width / rect.width (and the same for y) with
\* the rectangle of that event; the left edge maps to 0 and the right edge to
\* the canvas width.
C17_LinearMapping ==
  pointer # None /\ ~IsDegenerate(Pointer.event.rect) =>
    LET e == Pointer.event
        c == Pointer.coords[1]
    IN /\ IsFinitePoint(c)
       /\ c.x.n * e.rect.width = (e.clientX - e.rect.left) * canvas.width * c.x.d
       /\ c.y.n * e.rect.height = (e.clientY - e.rect.top) * canvas.height * c.y.d
       /\ e.clientX = e.rect.left => c.x.n = 0
       /\ e.clientX = e.rect.left + e.rect.width => c.x.n = canvas.width * c.x.d

\* a stroke on the loaded S1 reaches the right edge of a rectangle four times
\* as wide as the canvas, after an event that drew
C17_Witness ==
  /\ pointer # None
  /\ canvas = naturalSize("S1")
  /\ imageLoads = {}
  /\ Pointer.event.rect.width = 4
  /\ Pointer.event.clientX = Pointer.event.rect.left + 4
  /\ Pointer.coords[1].x = Ratio(4, 4)
  /\ path.cells # {}

C20_CancelAndApply ==
  [][/\ isEditorOpen /\ ~isEditorOpen' /\ saved' = None
          => maskImage' = maskImage /\ surface' = {}
     /\ saved' # None
          => /\ saved'[1].buffer = exported(canvas, surface)
             /\ saved'[1].previous = None
             /\ maskImage' = base64Of(saved'[1].buffer)
             /\ ~isEditorOpen']_vars

\* Apply Mask has stored a mask with a white pixel and closed the editor
C20_Witness ==
  /\ saved # None
  /\ ~isEditorOpen
  /\ maskImage = base64Of(Saved.buffer)
  /\ \E c \in DOMAIN Saved.buffer.pixels : Saved.buffer.pixels[c] = "white"

\* ------------------------------------------------------------------- C21
Selected(list, angle) == \E i \in 1..Len(list) : list[i] = angle
EachOnce(list) == \A i, j \in 1..Len(list) : list[i] = list[j] => i = j

\* `after` is `before` without `angle`, the others in their order
Deselects(before, after, angle) ==
  /\ Selected(before, angle)
  /\ ~Selected(after, angle)
  /\ Len(after) = Len(before) - 1
  /\ \A i \in 1..Len(after) :
       \E j \in i..Len(before) :
          /\ before[j] = after[i]
          /\ \A k \in 1..(i - 1) : \E l \in 1..(j - 1) : before[l] = after[k]

\* `after` is `before` with the so far unselected `angle` at the end
SelectsLast(before, after, angle) ==
  /\ ~Selected(before, angle)
  /\ after = before \o <<angle>>

\* C21: the viewpoint list holds each selected viewpoint once; a step that
\* changes it either takes one selected viewpoint out, the others keeping their
\* order, or puts one unselected viewpoint at the end, so the list is in the
\* order of the last selections; and a request that is issued carries this
\* list, its viewpoint clause naming the viewpoints in the list's order.
C21_ViewpointOrder ==
  [][/\ EachOnce(cameraAngles')
     /\ cameraAngles' # cameraAngles =>
          \E angle \in CameraAngle :
             \/ Deselects(cameraAngles, cameraAngles', angle)
             \/ SelectsLast(cameraAngles, cameraAngles', angle)
     /\ sent = None /\ sent' # None =>
          /\ sent'[1].settings.cameraAngles = cameraAngles
          /\ LET text == sent'[1].parts[Len(sent'[1].parts)].text
             IN Len(cameraAngles) > 0 =>
                  \E k \in 2..Len(text) :
                     /\ text[k - 1] \in {CameraView, SubjectPose}
                     /\ ListedFrom(text, cameraAngles, k)]_vars

\* a request issued with Left Side View selected before Front View
C21_Witness ==
  /\ HasRequest
  /\ cameraAngles = <<"Left Side View", "Front View">>
  /\ Req.settings.cameraAngles = cameraAngles
  /\ \E k \in 2..Len(ReqText) : ListedFrom(ReqText, cameraAngles, k)

\* ------------------------------------------------------------------- C22
\* C22: a stored mask implies a stored source image; a step that changes the
\* stored source image (a completed upload, a removal) leaves no mask; and a
\* mask is exported only by an editor that was opened on the source image
\* stored at that moment, so a stored mask is one of the current source.
C22_MaskOfCurrentSource ==
  [][/\ Truthy(maskImage') => Truthy(uploadedImage')
     /\ uploadedImage' # uploadedImage => maskImage' = NULL
     /\ saved' # None => openedOn = uploadedImage]_vars

\* ------------------------------------------------------------------- C23
\* the step is what an extend-stroke event does while a stroke is active
ExtendsStroke ==
  /\ isDrawing
  /\ pointer' # None
  /\ pointer'[1].coords # None
  /\ path' = lineTo(path, pointer'[1].coords[1])
  /\ surface' = stroke(surface, path', mode)

\* the step is what clear-all does
ClearsAll ==
  /\ surface' = {}
  /\ canvas' = canvas
  /\ covered' = [c \in DOMAIN covered |-> "cleared"]

\* C23: while the editor stays mounted, a step that changes the surface is an
\* extend-stroke event handled while a stroke is active or clear-all; so a
\* pointer-move event received when no stroke is active leaves the surface
\* unchanged.
C23_SurfaceChangesOnlyByStrokes ==
  [][editorRendered /\ editorRendered' /\ surface' # surface
        => ExtendsStroke \/ ClearsAll]_vars


====
